---- MODULE Spec2Model ----
(***************************************************************************)
(* Model of the reference-counting runtime in Sources/Runtime/arc.cpp.     *)
(*                                                                         *)
(* A payload address is an element of Objs.  The pointer-sized slot in     *)
(* front of a payload is boxPtr[o]; the RefCountBox it points to is box[o].*)
(* Every method of RefCounted is cut into one step per access to shared    *)
(* memory, so that threads interleave between the statements of the source.*)
(***************************************************************************)
EXTENDS Integers, Sequences, FiniteSets, TLC

\* ---- bounds of the model ----
NumThreads == 2
NumObjs == 2
\* std::numeric_limits<uint32_t>::max(), scaled down; the count wraps modulo MaxCount + 1
MaxCount == 3
\* calls the generated code makes in all (those of the destructors come on top)
MaxCalls == 4

Threads == 1..NumThreads
Objs == 1..NumObjs
NoThread == 0

VARIABLES
  calls,    \* number of calls the threads have made so far
  boxPtr,   \* [Objs -> {"unallocated", "box", "nullptr"}]: *boxPtr of each payload
  box,      \* [Objs -> RefCountBox]: the storage of each payload's RefCountBox
  stack,    \* [Threads -> Seq(frame)]: the calls each thread is inside, innermost last
  fatal,    \* the trill_fatalError or fault that ended the process, and its thread
  ret,      \* [Threads -> record]: what the thread's last query returned
  hist,     \* [Objs -> record]: the calls made on each payload so far
  audit     \* accesses the threads have performed, by kind

vars == <<calls, boxPtr, box, stack, fatal, ret, hist, audit>>

\* ---- RefCountBox ----
\* trill_deinitializer_t: nullptr, or a function of the payload.  The functions
\* considered do nothing, or retain / release one payload (tgt).
NullDeinit == [kind |-> "nullptr", tgt |-> 0]
Deinits ==
  {NullDeinit, [kind |-> "plain", tgt |-> 0]}
    \cup [kind : {"retain", "release"}, tgt : Objs]

RefCountBox(retainCount, deinit) ==
  [live |-> TRUE, retainCount |-> retainCount, deinit |-> deinit, mutex |-> NoThread]

NoBox == [live |-> FALSE, retainCount |-> 0, deinit |-> NullDeinit, mutex |-> NoThread]

NoHist ==
  [retS |-> 0, retD |-> 0, relS |-> 0, relD |-> 0, obsS |-> 0, incs |-> 0, decs |-> 0,
   inOrder |-> TRUE, hasDeinit |-> FALSE,
   deinitCalls |-> 0, deinitRan |-> FALSE, deinitAtDec |-> 0]

NoFatal == [kind |-> "none", by |-> NoThread]
\* trill_fatalError(msg), or a fault: the process ends in thread t
Fatal(t, kind) == fatal' = [kind |-> kind, by |-> t]

NoRet == [op |-> "none", obj |-> 0, seen |-> 0, val |-> 0]

Init ==
  /\ calls = 0
  /\ boxPtr = [o \in Objs |-> "unallocated"]
  /\ box = [o \in Objs |-> NoBox]
  /\ stack = [t \in Threads |-> <<>>]
  /\ fatal = NoFatal
  /\ ret = [t \in Threads |-> NoRet]
  /\ hist = [o \in Objs |-> NoHist]
  /\ audit = [freed |-> FALSE, unlockedCount |-> FALSE, unlockedTeardown |-> FALSE]

\* ---- frames ----
Running(t) == fatal = NoFatal /\ stack[t] # <<>>
Top(t) == stack[t][Len(stack[t])]
At(t, op, pc) == Running(t) /\ Top(t).op = op /\ Top(t).pc = pc
Goto(t, pc) == stack' = [stack EXCEPT ![t][Len(stack[t])].pc = pc]
GotoWith(t, pc, r) ==
  stack' = [stack EXCEPT ![t][Len(stack[t])] = [@ EXCEPT !.pc = pc, !.r = r]]
NewFrame(op, o) ==
  [op |-> op, obj |-> o, pc |-> "check", r |-> 0, late |-> hist[o].deinitRan]

\* A call returns: its frame is popped.  When it was called by a destructor, the
\* destructor returns with it and dealloc goes on at line 179.  h is hist as the
\* returning step leaves it.
Return(t, h) ==
  LET n == Len(stack[t]) IN
  IF n = 1
    THEN /\ stack' = [stack EXCEPT ![t] = <<>>]
         /\ hist' = h
    ELSE /\ stack' = [stack EXCEPT ![t] =
                        [SubSeq(@, 1, n - 1) EXCEPT ![n - 1].pc = "dunlock"]]
         /\ hist' = [h EXCEPT ![stack[t][n - 1].obj].deinitRan = TRUE]

\* box(): the slot holds the address of a RefCountBox
Deref(o) == boxPtr[o] = "box"

\* The access a step makes to the box of o, recorded: whether the storage was
\* already freed, and whether the thread held the box's mutex.
Touch(t, o, count, teardown) ==
  audit' = [freed |-> audit.freed \/ ~box[o].live,
            unlockedCount |-> audit.unlockedCount \/ (count /\ box[o].mutex # t),
            unlockedTeardown |->
              audit.unlockedTeardown \/ (teardown /\ box[o].mutex # t)]


\* ---- faulty variants of the steps below, which the properties must tell apart ----
\* a release that reaches 0 unlocks and returns without tearing the box down
ReleaseDecNoDealloc(t) ==
  LET o == Top(t).obj
      n == (Top(t).r - 1) % (MaxCount + 1) IN
  /\ At(t, "release", "dec")
  /\ Deref(o)
  /\ Touch(t, o, TRUE, FALSE)
  /\ box' = [box EXCEPT ![o].retainCount = n]
  /\ hist' = [hist EXCEPT ![o].decs = @ + 1]
  /\ Goto(t, "unlock")
  /\ UNCHANGED <<calls, boxPtr, fatal, ret>>

\* a release that leaves the count above 0 returns without unlocking
ReleaseUnlockLeaking(t) ==
  LET o == Top(t).obj IN
  /\ At(t, "release", "unlock")
  /\ Deref(o)
  /\ Touch(t, o, FALSE, FALSE)
  /\ Return(t, [hist EXCEPT ![o].relD = @ + 1])
  /\ UNCHANGED <<calls, boxPtr, box, fatal, ret>>

\* the constructor starts the box at a count of 1
AllocateRetained(t, o, d) ==
  /\ fatal = NoFatal /\ stack[t] = <<>>
  /\ boxPtr[o] = "unallocated"
  /\ \A p \in Objs : p < o => boxPtr[p] # "unallocated"
  /\ boxPtr' = [boxPtr EXCEPT ![o] = "box"]
  /\ box' = [box EXCEPT ![o] = RefCountBox(1, d)]
  /\ hist' = [hist EXCEPT ![o].hasDeinit = d # NullDeinit]
  /\ UNCHANGED <<calls, stack, fatal, ret, audit>>

\* trill_alloc hands out the storage of a deallocated payload again
AllocateReusing(t, o, d) ==
  /\ fatal = NoFatal /\ stack[t] = <<>>
  /\ boxPtr[o] # "box"
  /\ \A p \in Objs : p < o => boxPtr[p] # "unallocated"
  /\ boxPtr' = [boxPtr EXCEPT ![o] = "box"]
  /\ box' = [box EXCEPT ![o] = RefCountBox(0, d)]
  /\ hist' = [hist EXCEPT ![o].hasDeinit = d # NullDeinit]
  /\ UNCHANGED <<calls, stack, fatal, ret, audit>>

\* ---- RefCounted(size_t, trill_deinitializer_t), trill_allocateIndirectType ----
Allocate(t, o, d) ==
  /\ fatal = NoFatal /\ stack[t] = <<>>
  /\ boxPtr[o] = "unallocated"
  /\ \A p \in Objs : p < o => boxPtr[p] # "unallocated"
  /\ boxPtr' = [boxPtr EXCEPT ![o] = "box"]
  /\ box' = [box EXCEPT ![o] = RefCountBox(0, d)]
  /\ hist' = [hist EXCEPT ![o].hasDeinit = d # NullDeinit]
  /\ UNCHANGED <<calls, stack, fatal, ret, audit>>

\* ---- trill_retain, trill_release, trill_isUniquelyReferenced, retainCount ----
Ops == {"retain", "release", "isUniquelyReferenced", "retainCount"}

Started(h, op) ==
  CASE op = "retain" ->
         [h EXCEPT !.retS = @ + 1, !.inOrder = @ /\ h.relS = 0]
    [] op = "release" ->
         [h EXCEPT !.relS = @ + 1, !.inOrder = @ /\ h.retS = h.retD]
    [] OTHER -> [h EXCEPT !.obsS = @ + 1, !.inOrder = FALSE]

Call(t, op, o) ==
  /\ fatal = NoFatal /\ stack[t] = <<>>
  /\ boxPtr[o] # "unallocated"
  /\ calls < MaxCalls
  /\ calls' = calls + 1
  /\ stack' = [stack EXCEPT ![t] = <<NewFrame(op, o)>>]
  /\ hist' = [hist EXCEPT ![o] = Started(@, op)]
  /\ ret' = [ret EXCEPT ![t] = NoRet]
  /\ UNCHANGED <<boxPtr, box, fatal, audit>>

\* ---- checkForUseAfterDealloc ----
checkForUseAfterDealloc(t) ==
  /\ Running(t) /\ Top(t).pc = "check"
  /\ IF boxPtr[Top(t).obj] = "nullptr"
       THEN /\ Fatal(t, "UseAfterFree")
            /\ UNCHANGED stack
       ELSE /\ Goto(t, IF Top(t).op = "retain" THEN "log" ELSE "lock")
            /\ UNCHANGED fatal
  /\ UNCHANGED <<calls, boxPtr, box, ret, hist, audit>>

\* a lock that excludes nobody
LockUnguarded(t) ==
  LET o == Top(t).obj IN
  /\ Running(t) /\ Top(t).pc = "lock"
  /\ Deref(o)
  /\ box' = [box EXCEPT ![o].mutex = t]
  /\ Touch(t, o, FALSE, FALSE)
  /\ Goto(t, IF Top(t).op \in {"retain", "release"} THEN "test" ELSE "read")
  /\ UNCHANGED <<calls, boxPtr, fatal, ret, hist>>

\* a recursive mutex: the owner locks it again
LockRecursive(t) ==
  LET o == Top(t).obj IN
  /\ Running(t) /\ Top(t).pc = "lock"
  /\ Deref(o)
  /\ box[o].mutex \in {NoThread, t}
  /\ box' = [box EXCEPT ![o].mutex = t]
  /\ Touch(t, o, FALSE, FALSE)
  /\ Goto(t, IF Top(t).op \in {"retain", "release"} THEN "test" ELSE "read")
  /\ UNCHANGED <<calls, boxPtr, fatal, ret, hist>>

\* std::mutex::lock, by lock_guard (lines 111, 120, 131) or by hand (line 145).
\* A thread that locks a mutex it already owns blocks for good, as the thread
\* that finds it owned by another does until it is unlocked.
Lock(t) ==
  LET o == Top(t).obj IN
  /\ Running(t) /\ Top(t).pc = "lock"
  /\ Deref(o)
  /\ box[o].mutex = NoThread
  /\ box' = [box EXCEPT ![o].mutex = t]
  /\ Touch(t, o, FALSE, FALSE)
  /\ Goto(t, IF Top(t).op \in {"retain", "release"} THEN "test" ELSE "read")
  /\ UNCHANGED <<calls, boxPtr, fatal, ret, hist>>

\* ---- retain ----
\* line 130: DEBUG_ARC_LOG reads box()->retainCount before the mutex is taken
RetainLog(t) ==
  LET o == Top(t).obj IN
  /\ At(t, "retain", "log")
  /\ Deref(o)
  /\ Touch(t, o, TRUE, FALSE)
  /\ Goto(t, "lock")
  /\ UNCHANGED <<calls, boxPtr, box, fatal, ret, hist>>

\* retain without the overflow test
RetainTestUnchecked(t) ==
  LET o == Top(t).obj IN
  /\ At(t, "retain", "test")
  /\ Deref(o)
  /\ Touch(t, o, TRUE, FALSE)
  /\ GotoWith(t, "inc", box[o].retainCount)
  /\ UNCHANGED <<calls, boxPtr, box, fatal, ret, hist>>

\* line 132
RetainTest(t) ==
  LET o == Top(t).obj IN
  /\ At(t, "retain", "test")
  /\ Deref(o)
  /\ Touch(t, o, TRUE, FALSE)
  /\ IF box[o].retainCount = MaxCount
       THEN /\ Fatal(t, "RetainOverflow")
            /\ UNCHANGED stack
       ELSE /\ GotoWith(t, "inc", box[o].retainCount)
            /\ UNCHANGED fatal
  /\ UNCHANGED <<calls, boxPtr, box, ret, hist>>

\* line 135: box()->retainCount++ is a load and a store; the value stored is
\* one more than the value loaded at line 132, which no step in between changes
\* while the mutex excludes the other threads
RetainInc(t) ==
  LET o == Top(t).obj IN
  /\ At(t, "retain", "inc")
  /\ Deref(o)
  /\ Touch(t, o, TRUE, FALSE)
  /\ box' = [box EXCEPT ![o].retainCount = (Top(t).r + 1) % (MaxCount + 1)]
  /\ hist' = [hist EXCEPT ![o].incs = @ + 1]
  /\ Goto(t, "unlock")
  /\ UNCHANGED <<calls, boxPtr, fatal, ret>>

\* lines 113, 123, 137: the lock_guard unlocks the mutex as the method returns
GuardUnlock(t) ==
  LET o == Top(t).obj IN
  /\ Running(t) /\ Top(t).pc = "unlock" /\ Top(t).op # "release"
  /\ Deref(o)
  /\ Touch(t, o, FALSE, FALSE)
  /\ box' = [box EXCEPT ![o].mutex = NoThread]
  /\ Return(t, IF Top(t).op = "retain"
                 THEN [hist EXCEPT ![o].retD = @ + 1] ELSE hist)
  /\ UNCHANGED <<calls, boxPtr, fatal, ret>>

\* a query that assigns where it should compare: retainCount = 1
ReadAssigning(t) ==
  LET o == Top(t).obj IN
  /\ Running(t) /\ Top(t).pc = "read"
  /\ Deref(o)
  /\ Touch(t, o, TRUE, FALSE)
  /\ box' = [box EXCEPT ![o].retainCount = 1]
  /\ ret' = [ret EXCEPT ![t] = [op |-> Top(t).op, obj |-> o, seen |-> 1, val |-> 1]]
  /\ Goto(t, "unlock")
  /\ UNCHANGED <<calls, boxPtr, fatal, hist>>

\* isUniquelyReferenced answering "is referenced": retainCount >= 1
ReadAtLeastOne(t) ==
  LET o == Top(t).obj
      seen == box[o].retainCount IN
  /\ Running(t) /\ Top(t).pc = "read"
  /\ Deref(o)
  /\ Touch(t, o, TRUE, FALSE)
  /\ ret' = [ret EXCEPT ![t] =
               [op |-> Top(t).op, obj |-> o, seen |-> seen,
                val |-> IF Top(t).op = "isUniquelyReferenced"
                          THEN (IF seen >= 1 THEN 1 ELSE 0) ELSE seen]]
  /\ Goto(t, "unlock")
  /\ UNCHANGED <<calls, boxPtr, box, fatal, hist>>

\* ---- isUniquelyReferenced (line 112), retainCount (lines 121-122) ----
Read(t) ==
  LET o == Top(t).obj
      seen == box[o].retainCount IN
  /\ Running(t) /\ Top(t).pc = "read"
  /\ Deref(o)
  /\ Touch(t, o, TRUE, FALSE)
  /\ ret' = [ret EXCEPT ![t] =
               [op |-> Top(t).op, obj |-> o, seen |-> seen,
                val |-> IF Top(t).op = "isUniquelyReferenced"
                          THEN (IF seen = 1 THEN 1 ELSE 0) ELSE seen]]
  /\ Goto(t, "unlock")
  /\ UNCHANGED <<calls, boxPtr, box, fatal, hist>>

\* ---- release ----
\* release without the underflow test
ReleaseTestUnchecked(t) ==
  LET o == Top(t).obj IN
  /\ At(t, "release", "test")
  /\ Deref(o)
  /\ Touch(t, o, TRUE, FALSE)
  /\ GotoWith(t, "dec", box[o].retainCount)
  /\ UNCHANGED <<calls, boxPtr, box, fatal, ret, hist>>

\* line 146
ReleaseTest(t) ==
  LET o == Top(t).obj IN
  /\ At(t, "release", "test")
  /\ Deref(o)
  /\ Touch(t, o, TRUE, FALSE)
  /\ IF box[o].retainCount = 0
       THEN /\ Fatal(t, "ReleaseUnderflow")
            /\ UNCHANGED stack
       ELSE /\ GotoWith(t, "dec", box[o].retainCount)
            /\ UNCHANGED fatal
  /\ UNCHANGED <<calls, boxPtr, box, ret, hist>>

\* lines 150-154: box()->retainCount-- (on the value loaded at line 146, as in
\* retain), and the test of the new count that chooses dealloc()
ReleaseDec(t) ==
  LET o == Top(t).obj
      n == (Top(t).r - 1) % (MaxCount + 1) IN
  /\ At(t, "release", "dec")
  /\ Deref(o)
  /\ Touch(t, o, TRUE, FALSE)
  /\ box' = [box EXCEPT ![o].retainCount = n]
  /\ hist' = [hist EXCEPT ![o].decs = @ + 1]
  /\ Goto(t, IF n = 0 THEN "dcheck" ELSE "unlock")
  /\ UNCHANGED <<calls, boxPtr, fatal, ret>>

\* line 157
ReleaseUnlock(t) ==
  LET o == Top(t).obj IN
  /\ At(t, "release", "unlock")
  /\ Deref(o)
  /\ Touch(t, o, FALSE, FALSE)
  /\ box' = [box EXCEPT ![o].mutex = NoThread]
  /\ Return(t, [hist EXCEPT ![o].relD = @ + 1])
  /\ UNCHANGED <<calls, boxPtr, fatal, ret>>

\* ---- dealloc ----
\* lines 167-171
DeallocCheck(t) ==
  LET o == Top(t).obj IN
  /\ At(t, "release", "dcheck")
  /\ IF boxPtr[o] = "nullptr"
       THEN /\ Fatal(t, "UseAfterFree")
            /\ UNCHANGED <<calls, stack, audit>>
       ELSE /\ Touch(t, o, TRUE, TRUE)
            /\ IF box[o].retainCount > 0
                 THEN /\ Fatal(t, "DeallocRetained")
                      /\ UNCHANGED stack
                 ELSE /\ Goto(t, "deinit")
                      /\ UNCHANGED fatal
  /\ UNCHANGED <<calls, boxPtr, box, ret, hist>>

\* lines 175-177: box()->deinit(value).  A destructor that retains or releases
\* a payload does so in a call of its own, on this thread.
DeallocDeinit(t) ==
  LET o == Top(t).obj
      d == box[o].deinit
      nests == d.kind \in {"retain", "release"} /\ boxPtr[d.tgt] # "unallocated"
      h == [hist EXCEPT ![o] = [@ EXCEPT !.deinitCalls = @ + 1,
                                          !.deinitAtDec = hist[o].decs,
                                          !.deinitRan = @ \/ ~nests]] IN
  /\ At(t, "release", "deinit")
  /\ Deref(o)
  /\ Touch(t, o, FALSE, TRUE)
  /\ IF d.kind = "nullptr"
       THEN /\ Goto(t, "dunlock")
            /\ UNCHANGED hist
       ELSE IF nests
         THEN /\ stack' = [stack EXCEPT ![t] =
                             Append([@ EXCEPT ![Len(@)].pc = "indeinit"],
                                    NewFrame(d.kind, d.tgt))]
              /\ hist' = [h EXCEPT ![d.tgt] = Started(@, d.kind)]
         ELSE /\ Goto(t, "dunlock")
              /\ hist' = h
  /\ UNCHANGED <<calls, boxPtr, box, fatal, ret>>

\* line 180
DeallocUnlock(t) ==
  LET o == Top(t).obj IN
  /\ At(t, "release", "dunlock")
  /\ Deref(o)
  /\ Touch(t, o, FALSE, FALSE)
  /\ box' = [box EXCEPT ![o].mutex = NoThread]
  /\ Goto(t, "delete")
  /\ UNCHANGED <<calls, boxPtr, fatal, ret, hist>>

\* line 181: delete box().  The freed storage keeps what was in it.
DeallocDelete(t) ==
  LET o == Top(t).obj IN
  /\ At(t, "release", "delete")
  /\ Deref(o)
  /\ Touch(t, o, FALSE, TRUE)
  /\ box' = [box EXCEPT ![o].live = FALSE]
  /\ Goto(t, "null")
  /\ UNCHANGED <<calls, boxPtr, fatal, ret, hist>>

\* line 184: *boxPtr = nullptr, and release returns
DeallocNull(t) ==
  LET o == Top(t).obj IN
  /\ At(t, "release", "null")
  /\ boxPtr' = [boxPtr EXCEPT ![o] = "nullptr"]
  /\ audit' = [audit EXCEPT !.unlockedTeardown = @ \/ box[o].mutex # t]
  /\ Return(t, [hist EXCEPT ![o].relD = @ + 1])
  /\ UNCHANGED <<calls, box, fatal, ret>>

\* ---- undefined behaviour ----
\* the steps that go through box()
DerefPcs ==
  {"log", "lock", "test", "inc", "dec", "read", "unlock", "deinit", "dunlock", "delete"}

\* box() returned nullptr after checkForUseAfterDealloc had passed: the access
\* through it faults
NullDeref(t) ==
  /\ Running(t) /\ Top(t).pc \in DerefPcs
  /\ boxPtr[Top(t).obj] = "nullptr"
  /\ Fatal(t, "NullDeref")
  /\ UNCHANGED <<calls, boxPtr, box, stack, ret, hist, audit>>

\* box() returned the address of freed storage: the access either finds what
\* the box held (the steps above) or faults
FreedFault(t) ==
  /\ Running(t) /\ Top(t).pc \in DerefPcs
  /\ Deref(Top(t).obj) /\ ~box[Top(t).obj].live
  /\ Fatal(t, "MemoryFault")
  /\ audit' = [audit EXCEPT !.freed = TRUE]
  /\ UNCHANGED <<calls, boxPtr, box, stack, ret, hist>>

Next ==
  \E t \in Threads :
    \/ \E o \in Objs, d \in Deinits : Allocate(t, o, d)
    \/ \E o \in Objs, op \in Ops : Call(t, op, o)
    \/ checkForUseAfterDealloc(t)
    \/ Lock(t)
    \/ RetainLog(t)
    \/ RetainTest(t)
    \/ RetainInc(t)
    \/ GuardUnlock(t)
    \/ Read(t)
    \/ ReleaseTest(t)
    \/ ReleaseDec(t)
    \/ ReleaseUnlock(t)
    \/ DeallocCheck(t)
    \/ DeallocDeinit(t)
    \/ DeallocUnlock(t)
    \/ DeallocDelete(t)
    \/ DeallocNull(t)
    \/ NullDeref(t)
    \/ FreedFault(t)

Spec == Init /\ [][Next]_vars

\* ---- properties ----
Frames == {<<t, i>> \in Threads \X (1..(2 * NumObjs + 1)) : i <= Len(stack[t])}
\* the step is one of thread t
Acts(t) == stack'[t] # stack[t] \/ fatal'.by = t
Inside(t, op, o) == stack[t] # <<>> /\ Top(t).op = op /\ Top(t).obj = o

\* C1: on an object with a destructor whose calls so far are N retains followed
\* by releases, the destructor is invoked only by the release that performs the
\* N-th decrement, at most once, and has been invoked exactly once when N >= 1
\* releases have returned.
C1_DeinitOnFinalRelease ==
  \A o \in Objs :
    LET h == hist[o] IN
    (h.inOrder /\ h.hasDeinit) =>
      /\ h.deinitCalls <= 1
      /\ h.deinitCalls = 1 => (h.retD >= 1 /\ h.deinitAtDec = h.retD /\ h.relS >= h.retD)
      /\ (h.retD >= 1 /\ h.relD = h.retD) => h.deinitCalls = 1

C1_Witness ==
  \E o \in Objs :
    LET h == hist[o] IN
    /\ h.inOrder /\ h.hasDeinit
    /\ h.retD = 2 /\ h.relS = 2 /\ h.relD = 2
    /\ h.deinitCalls = 1 /\ h.deinitAtDec = 2

\* C2: a call begun after the destructor of its object has run gets no further
\* than checkForUseAfterDealloc (where it ends in the UseAfterFree error).
C2_CallAfterDeinitIsFatal ==
  \A f \in Frames : stack[f[1]][f[2]].late => stack[f[1]][f[2]].pc = "check"

\* C3: while an object has only been retained, no increment is lost: its count
\* lies between the retains that returned and the retains that began, so it is
\* the number of retains once all of them have returned.
C3_NoLostRetain ==
  \A o \in Objs :
    (box[o].live /\ hist[o].relS = 0) =>
      /\ hist[o].retD <= box[o].retainCount
      /\ box[o].retainCount <= hist[o].retS
      /\ hist[o].retS = hist[o].retD => box[o].retainCount = hist[o].retD

\* every thread is inside retain on an object of count 1: one has incremented
\* and still holds the mutex, another waits for it
C3_Witness ==
  \E o \in Objs :
    /\ hist[o].retD = 1 /\ hist[o].relS = 0 /\ box[o].retainCount = 2
    /\ \A t \in Threads : Inside(t, "retain", o)
    /\ \E t, u \in Threads : Top(t).pc = "unlock" /\ Top(u).pc = "lock"

\* an allocated object on which no call was made yet has a live box of count 0
C4_Fresh ==
  \A o \in Objs :
    (boxPtr[o] = "box" /\ hist[o].retS = 0 /\ hist[o].relS = 0 /\ hist[o].obsS = 0)
      => (box[o].live /\ box[o].retainCount = 0)

\* C4: an allocated object on which no call was made yet has a live box of
\* count 0; a release that finds the count of a live box 0 ends in the
\* ReleaseUnderflow error and changes no box, count or destructor record.
C4_ReleaseUnderflow ==
  []C4_Fresh /\
  [][\A t \in Threads :
      (/\ At(t, "release", "test")
       /\ box[Top(t).obj].live /\ box[Top(t).obj].retainCount = 0
       /\ Acts(t))
        => (/\ fatal' = [kind |-> "ReleaseUnderflow", by |-> t]
            /\ box' = box /\ boxPtr' = boxPtr /\ hist' = hist)]_vars

C4_Witness ==
  \E o \in Objs :
    /\ fatal.kind = "ReleaseUnderflow" /\ Top(fatal.by).obj = o
    /\ hist[o].retS = 0 /\ hist[o].decs = 0 /\ hist[o].deinitCalls = 0
    /\ hist[o].hasDeinit
    /\ box[o].live /\ box[o].retainCount = 0

\* C5: a retain that finds the count of a live box at the maximum ends in the
\* RetainOverflow error and leaves every box as it is.
C5_RetainOverflow ==
  [][\A t \in Threads :
      (/\ At(t, "retain", "test")
       /\ box[Top(t).obj].live /\ box[Top(t).obj].retainCount = MaxCount
       /\ Acts(t))
        => (/\ fatal' = [kind |-> "RetainOverflow", by |-> t]
            /\ box' = box /\ boxPtr' = boxPtr /\ hist' = hist)]_vars

C5_Witness ==
  /\ fatal.kind = "RetainOverflow"
  /\ box[Top(fatal.by).obj].retainCount = MaxCount
  /\ hist[Top(fatal.by).obj].incs = MaxCount

\* C6: the slot of a payload never holds the address of a freed RefCountBox.
C6_SlotValidOrNull ==
  \A o \in Objs : boxPtr[o] = "box" => box[o].live

\* C7: while isUniquelyReferenced still holds the mutex of a live box after its
\* read, what it returns is 1 if the count of the box is 1 and 0 otherwise.
C7_UniqueIffOne ==
  \A t \in Threads :
    (/\ stack[t] # <<>>
     /\ Top(t).op = "isUniquelyReferenced" /\ Top(t).pc = "unlock"
     /\ box[Top(t).obj].live)
      => /\ ret[t].op = "isUniquelyReferenced"
         /\ ret[t].val = (IF box[Top(t).obj].retainCount = 1 THEN 1 ELSE 0)

\* one query answered 1 on a count of 1, another answers 0 on a count of 2
C7_Witness ==
  \E t, u \in Threads :
    /\ ret[t].op = "isUniquelyReferenced" /\ ret[t].seen = 1 /\ ret[t].val = 1
    /\ Inside(u, "isUniquelyReferenced", ret[t].obj) /\ Top(u).pc = "unlock"
    /\ box[Top(u).obj].live /\ box[Top(u).obj].retainCount = 2 /\ ret[u].val = 0

\* C8: once the slot of a payload is null, no step makes it non-null or
\* changes the (freed) box of that payload.
C8_DeallocatedIsTerminal ==
  [][\A o \in Objs :
      boxPtr[o] = "nullptr" =>
        (boxPtr'[o] = "nullptr" /\ ~box'[o].live /\ box'[o] = box[o])]_vars

\* a payload is deallocated, and a later call on it was refused
C8_Witness ==
  \E o \in Objs :
    /\ boxPtr[o] = "nullptr"
    /\ fatal.kind = "UseAfterFree" /\ Top(fatal.by).obj = o
    /\ \E p \in Objs : boxPtr[p] = "box"

\* C9: no thread locks, unlocks, reads or writes a RefCountBox whose storage
\* has been freed.
C9_NoAccessToFreedBox == ~audit.freed

\* C10: every read and write of a count and every step of dealloc is made by a
\* thread that holds the mutex of the box.
C10_AccessUnderLock == ~audit.unlockedCount /\ ~audit.unlockedTeardown

\* C11: the destructor of an object is invoked at most once.
C11_DeinitAtMostOnce ==
  \A o \in Objs : hist[o].deinitCalls <= 1

\* the box of o is allocated, linked, of count 0 and locked by thread t
TornDownBy(t, o) ==
  /\ boxPtr[o] = "box" /\ box[o].live
  /\ box[o].retainCount = 0 /\ box[o].mutex = t

\* C12: a destructor is invoked, and runs, only while the box of its object is
\* still allocated and linked, has count 0 and is locked by the releasing thread.
C12_DeinitAfterZeroBeforeFree ==
  /\ [](\A f \in Frames :
          stack[f[1]][f[2]].pc = "indeinit" => TornDownBy(f[1], stack[f[1]][f[2]].obj))
  /\ [][\A t \in Threads :
          (/\ At(t, "release", "deinit")
           /\ hist'[Top(t).obj].deinitCalls > hist[Top(t).obj].deinitCalls)
            => TornDownBy(t, Top(t).obj)]_vars

\* thread t is inside the destructor of a box it tears down, in a call on
\* another box, and waits for the mutex of that box, which thread u holds
WaitsInDeinitFor(t, u) ==
  /\ Len(stack[t]) >= 2
  /\ Top(t).pc = "lock"
  /\ Top(t).obj # stack[t][Len(stack[t]) - 1].obj
  /\ boxPtr[Top(t).obj] = "box" /\ box[Top(t).obj].live
  /\ box[Top(t).obj].mutex = u

\* C13: no two threads, each tearing down a box whose destructor operates on
\* another box, wait for each other's mutex.
C13_NoDeadlockAcrossBoxes ==
  \A t, u \in Threads :
    t # u => ~(WaitsInDeinitFor(t, u) /\ WaitsInDeinitFor(u, t))

\* frame i of thread t is a call a destructor makes on the object being torn down
NestedOnSame(t, i) ==
  i >= 2 /\ i <= Len(stack[t]) /\ stack[t][i].obj = stack[t][i - 1].obj

\* C14: a call that a destructor makes on the object being torn down gets no
\* further than the lock of that object (it never increments, decrements or
\* returns), and as long as the box is allocated its count stays 0 and its
\* mutex with the thread.
C14_ReentrantCallBlocks ==
  \A f \in Frames :
    NestedOnSame(f[1], f[2]) =>
      /\ stack[f[1]][f[2]].pc \in {"check", "log", "lock"}
      /\ box[stack[f[1]][f[2]].obj].live =>
            (/\ box[stack[f[1]][f[2]].obj].retainCount = 0
             /\ box[stack[f[1]][f[2]].obj].mutex = f[1])

\* a destructor's retain of its own object waits at the lock the thread holds
C14_Witness ==
  \E t \in Threads :
    /\ NestedOnSame(t, Len(stack[t]))
    /\ Top(t).op = "retain" /\ Top(t).pc = "lock"
    /\ TornDownBy(t, Top(t).obj)

\* C15: the count of every box lies in 0 .. MaxCount, the increment is executed
\* only on a count below MaxCount and the decrement only on a count above 0,
\* the count they store being one more and one less than the count of the box.
C15_CountInRangeNoWrap ==
  /\ [](\A o \in Objs : box[o].retainCount \in 0..MaxCount)
  /\ [][\A t \in Threads :
          /\ (At(t, "retain", "inc") /\ stack'[t] # stack[t] /\ box[Top(t).obj].live)
               => (/\ box[Top(t).obj].retainCount < MaxCount
                   /\ box'[Top(t).obj].retainCount = box[Top(t).obj].retainCount + 1)
          /\ (At(t, "release", "dec") /\ stack'[t] # stack[t] /\ box[Top(t).obj].live)
               => (/\ box[Top(t).obj].retainCount > 0
                   /\ box'[Top(t).obj].retainCount = box[Top(t).obj].retainCount - 1)]_vars

\* a box was brought to MaxCount by increments and then decremented again
C15_Witness ==
  \E o \in Objs :
    /\ box[o].live /\ hist[o].incs = MaxCount /\ hist[o].decs >= 1
    /\ box[o].retainCount = MaxCount - hist[o].decs

\* C16: neither check at the start of teardown fails: no thread ends in the
\* fatal error of a teardown on a count above 0, nor in the use-after-deallocation
\* error at the start of a teardown.
C16_TeardownChecksUnreachable ==
  /\ fatal.kind # "DeallocRetained"
  /\ ~(/\ fatal.kind = "UseAfterFree"
        /\ Top(fatal.by).op = "release" /\ Top(fatal.by).pc = "dcheck")

\* a release is between the store of count 0 and the delete of the box of o
TeardownInProgress(o) ==
  \E f \in Frames :
    /\ stack[f[1]][f[2]].op = "release" /\ stack[f[1]][f[2]].obj = o
    /\ stack[f[1]][f[2]].pc \in {"dcheck", "deinit", "indeinit", "dunlock", "delete"}

Queries == {"isUniquelyReferenced", "retainCount"}

\* C18: no step of an isUniquelyReferenced or retainCount call changes the
\* count, the destructor, the existence or the slot of any object, nor whether
\* or how often a destructor was called, and when the call returns the mutex of
\* its box is free and the thread holds no mutex.
C18_QueriesReadOnly ==
  [][\A t \in Threads :
       (stack[t] # <<>> /\ Top(t).op \in Queries /\ Acts(t)) =>
         /\ boxPtr' = boxPtr
         /\ \A o \in Objs :
              /\ box'[o].retainCount = box[o].retainCount
              /\ box'[o].deinit = box[o].deinit
              /\ box'[o].live = box[o].live
              /\ hist'[o].deinitCalls = hist[o].deinitCalls
              /\ hist'[o].deinitRan = hist[o].deinitRan
         /\ stack'[t] = <<>> =>
              (/\ box'[Top(t).obj].mutex = NoThread
               /\ \A o \in Objs : box'[o].mutex # t)]_vars

\* a query on an allocated, retained object has returned its count and left
\* the mutex free
C18_Witness ==
  \E t \in Threads :
    /\ stack[t] = <<>> /\ ret[t].op = "retainCount"
    /\ box[ret[t].obj].live /\ box[ret[t].obj].mutex = NoThread
    /\ ret[t].val = box[ret[t].obj].retainCount /\ ret[t].val >= 1

\* a step of the call thread t is in
Step(t) ==
  \/ checkForUseAfterDealloc(t) \/ Lock(t)
  \/ RetainLog(t) \/ RetainTest(t) \/ RetainInc(t) \/ GuardUnlock(t)
  \/ Read(t)
  \/ ReleaseTest(t) \/ ReleaseDec(t) \/ ReleaseUnlock(t)
  \/ DeallocCheck(t) \/ DeallocDeinit(t) \/ DeallocUnlock(t)
  \/ DeallocDelete(t) \/ DeallocNull(t)
  \/ NullDeref(t) \/ FreedFault(t)

\* no call made inside a destructor is on an object that the same thread is
\* tearing down
NoDeinitOnOwnBox ==
  \A f \in Frames : \A i \in 1..(f[2] - 1) :
    stack[f[1]][i].obj # stack[f[1]][f[2]].obj

\* C19: as long as no error has ended the program and no destructor operates on
\* the box its thread is tearing down, the calls in progress are not all
\* stuck: some thread that is inside a call can take its next step.
C19_SomeCallCanStep ==
  (/\ fatal = NoFatal
   /\ NoDeinitOnOwnBox
   /\ \E t \in Threads : stack[t] # <<>>)
    => \E u \in Threads : stack[u] # <<>> /\ ENABLED Step(u)

\* the positions of a call between its lock and its unlock
Holding ==
  {"test", "inc", "dec", "read", "unlock", "dcheck", "deinit", "indeinit", "dunlock"}

\* C20: a thread holds the mutex of a box only inside a call of its own on that
\* object, between the lock and the unlock of that call: a call that has
\* returned holds none, and a release has unlocked the box when it frees it.
C20_NoLockLeaked ==
  /\ [](\A t \in Threads, o \in Objs :
          box[o].mutex = t =>
            \E f \in Frames :
              /\ f[1] = t /\ stack[t][f[2]].obj = o
              /\ stack[t][f[2]].pc \in Holding)
  /\ [][\A t \in Threads :
          (At(t, "release", "delete") /\ box[Top(t).obj].live /\ ~box'[Top(t).obj].live)
            => box[Top(t).obj].mutex # t]_vars

\* a release that left the count above 0 has returned, the mutex is free and
\* no call is in progress
C20_Witness ==
  /\ \A t \in Threads : stack[t] = <<>>
  /\ \E o \in Objs :
       /\ box[o].live /\ box[o].retainCount >= 1 /\ hist[o].relD >= 1
       /\ box[o].mutex = NoThread

====
